---- MODULE Spec2Model ----
(***************************************************************************)
(* Model of the Python test runner (src/runner/__init__.py): the           *)
(* ResultsReporter pytest plugin, the argument sanitizer and the hooks     *)
(* the engine (pytest) drives.                                             *)
(*                                                                         *)
(* Text (tracebacks, messages, paths, arguments) is a sequence of          *)
(* character-like tokens, so that startswith / replace / join are          *)
(* computed and not assumed.                                               *)
(***************************************************************************)
EXTENDS Integers, Sequences, FiniteSets, TLC

\* ------------------------------------------------------------------ bounds
MaxReports == 3        \* phase reports delivered in one run
MaxArgs == 3           \* length of the raw argument list
MaxItems == 3          \* number of collected test items
MaxFrags == 3          \* number of fragments a rendered traceback is built of
MaxFiles == 2          \* length of the test-file list of a config file

\* ------------------------------------------------- Python optional values
\* None is the empty sequence, a present value x is <<x>>
None == <<>>
Some(x) == <<x>>
Val(o) == o[1]

\* ------------------------------------------------------- sequence helpers
Range(s) == { s[i] : i \in 1..Len(s) }

StartsWith(s, p) == Len(s) >= Len(p) /\ SubSeq(s, 1, Len(p)) = p

RECURSIVE Join(_, _)
\* sep.join(parts), parts a sequence of texts
Join(sep, parts) ==
    IF parts = <<>> THEN <<>>
    ELSE IF Len(parts) = 1 THEN parts[1]
    ELSE parts[1] \o sep \o Join(sep, Tail(parts))

RECURSIVE Replace(_, _, _)
\* str.replace(old, new): leftmost, non-overlapping, old non-empty
Replace(s, old, new) ==
    IF s = <<>> THEN <<>>
    ELSE IF StartsWith(s, old)
         THEN new \o Replace(SubSeq(s, Len(old) + 1, Len(s)), old, new)
         ELSE <<s[1]>> \o Replace(Tail(s), old, new)

RECURSIVE SplitLines(_)
\* the lines of a text, split at "\n"
SplitLines(s) ==
    IF \A i \in 1..Len(s) : s[i] /= "\n" THEN <<s>>
    ELSE LET k == CHOOSE i \in 1..Len(s) :
                    s[i] = "\n" /\ \A j \in 1..(i - 1) : s[j] /= "\n"
         IN <<SubSeq(s, 1, k - 1)>> \o SplitLines(SubSeq(s, k + 1, Len(s)))

\* ------------------------------------------------------------------ paths
\* A path is [abs |-> BOOLEAN, parts |-> sequence of components].
PathStr(p) ==
    IF p.abs
    THEN IF p.parts = <<>> THEN <<"/">>
         ELSE <<"/">> \o Join(<<"/">>, [i \in 1..Len(p.parts) |-> <<p.parts[i]>>])
    ELSE Join(<<"/">>, [i \in 1..Len(p.parts) |-> <<p.parts[i]>>])

\* Path.cwd(): the directory the runner is started in
Cwd == [abs |-> TRUE, parts |-> <<"work", "proj">>]

\* os.path.commonpath raises ValueError when absolute and relative mix
CommonPathRaises(p, q) == p.abs /= q.abs

RECURSIVE CommonPrefix(_, _)
CommonPrefix(a, b) ==
    IF a = <<>> \/ b = <<>> \/ a[1] /= b[1] THEN <<>>
    ELSE <<a[1]>> \o CommonPrefix(Tail(a), Tail(b))

\* os.path.commonpath([p, q]) as text
CommonPath(p, q) == PathStr([abs |-> p.abs, parts |-> CommonPrefix(p.parts, q.parts)])

\* ------------------------------------------------- diagnostic formatting
IsBlank(line) == \A i \in 1..Len(line) : line[i] = " "

RECURSIVE Indent(_)
Indent(line) == IF line = <<>> \/ line[1] /= " " THEN 0 ELSE 1 + Indent(Tail(line))

\* re.sub("^E ", "  ", text, flags=re.M) on one line
SubE(line) ==
    IF StartsWith(line, <<"E", " ">>)
    THEN <<" ", " ">> \o SubSeq(line, 3, Len(line))
    ELSE line

\* textwrap.dedent: blank lines become empty, the common indent is removed
Dedent(lines) ==
    LET norm == [i \in 1..Len(lines) |-> IF IsBlank(lines[i]) THEN <<>> ELSE lines[i]]
        nb == { i \in 1..Len(norm) : norm[i] /= <<>> }
        margin == IF nb = {} THEN 0
                  ELSE CHOOSE m \in { Indent(norm[i]) : i \in nb } :
                           \A i \in nb : m <= Indent(norm[i])
    IN [i \in 1..Len(norm) |->
           IF norm[i] = <<>> THEN <<>> ELSE SubSeq(norm[i], margin + 1, Len(norm[i]))]

\* _make_message raises exactly when commonpath does
MakeMessageRaises(trace, crash) ==
    crash /= None /\ CommonPathRaises(Cwd, Val(crash).path)

\* dedent(re.sub("^E ", "  ", str(trace), flags=re.M)): the rendered message
Rendered(trace) ==
    LET lines == SplitLines(trace)
    IN Join(<<"\n">>, Dedent([i \in 1..Len(lines) |-> SubE(lines[i])]))

\* a formatter that relativizes the first occurrence only
_make_message_first(trace, crash) ==
    LET message == Rendered(trace)
        common == CommonPath(Cwd, Val(crash).path)
        hits == { i \in 1..Len(message) :
                    StartsWith(SubSeq(message, i, Len(message)), common) }
        k == CHOOSE i \in hits : \A j \in hits : i <= j
    IN IF crash /= None /\ hits /= {}
       THEN SubSeq(message, 1, k - 1) \o <<".">>
                \o SubSeq(message, k + Len(common), Len(message))
       ELSE message

_make_message(trace, crash) ==
    LET lines == SplitLines(trace)
        message == Join(<<"\n">>, Dedent([i \in 1..Len(lines) |-> SubE(lines[i])]))
    IN IF crash /= None
       THEN Replace(message, CommonPath(Cwd, Val(crash).path), <<".">>)
       ELSE message

\* ------------------------------------------------------------- data model
\* Test(name): a fresh record, passing, nothing attached
Test(name) ==
    [name |-> name, status |-> "pass", message |-> None,
     output |-> None, test_code |-> None]

TestIsPassing(t) == t.status = "pass"
TestFail(t, message) == [t EXCEPT !.status = "fail", !.message = message]
TestError(t, message) == [t EXCEPT !.status = "error", !.message = message]

\* Results(): status pass, no message, no tests
Results == [status |-> "pass", message |-> None, tests |-> <<>>]
ResultsFail(r) == [r EXCEPT !.status = "fail"]
ResultsError(r, message) == [r EXCEPT !.status = "error", !.message = message]
ResultsAdd(r, t) == [r EXCEPT !.tests = Append(@, t)]

\* ------------------------------------------------------- engine vocabulary
\* A node id "module::Class::function" is the sequence of its segments.
NodeIds ==
    { <<"a.py", "T", "test_hello">>,
      <<"a.py", "T", "test_abc">>,
      <<"b.py", "T", "test_hello">> }

\* report.nodeid.split("::")[1:] joined with "."
NameOf(nodeid) ==
    Join(<<".">>, [i \in 1..(Len(nodeid) - 1) |-> <<nodeid[i + 1]>>])

\* the name of each node id, computed once
Name == [nodeid \in NodeIds |-> NameOf(nodeid)]

Names == { Name[n] : n \in NodeIds }

Whens == {"setup", "call", "teardown"}
Outcomes == {"passed", "failed", "skipped"}
CapStdouts == {"", "out"}

\* rendered tracebacks the engine hands over (never empty: the rendering of
\* an exception names at least its class)
TraceAssert ==
    <<"E", " ", " ", " ", "AssertionError", "\n",
      "/", "work", "/", "proj", "/", "sub", "/", "t.py", ":", "9">>
TraceZero ==
    <<" ", " ", "x", "\n", "E", " ", " ", " ", "ZeroDivisionError">>

CrashAbs == [path |-> [abs |-> TRUE, parts |-> <<"work", "proj", "sub", "t.py">>]]
\* the crash entry of code run by exec/eval has the file name "<string>"
CrashRel == [path |-> [abs |-> FALSE, parts |-> <<"<string>">>]]

\* the exception representations (traceback, crash locator) of the engine
ReprAbs == [reprtraceback |-> TraceAssert, reprcrash |-> Some(CrashAbs)]
ReprNoCrash == [reprtraceback |-> TraceZero, reprcrash |-> None]
ReprRel == [reprtraceback |-> TraceZero, reprcrash |-> Some(CrashRel)]

\* report.longrepr of a failed report, None when the engine gives none
LongReprs == { None, Some(ReprAbs), Some(ReprRel) }

\* the phase reports of the engine; only a failed report carries a longrepr
\* the reporter reads
Reports ==
    { r \in [nodeid : NodeIds, when : Whens, outcome : Outcomes,
              capstdout : CapStdouts, longrepr : LongReprs] :
          r.outcome /= "failed" => r.longrepr = None }

\* pytest.ExitCode
ExitCodeNames ==
    <<"OK", "TESTS_FAILED", "INTERRUPTED", "INTERNAL_ERROR", "USAGE_ERROR",
      "NO_TESTS_COLLECTED">>
ExitCodes == 0..(Len(ExitCodeNames) - 1)
ExitCodeName(c) == ExitCodeNames[c + 1]
ExitCodeOf(name) == CHOOSE c \in ExitCodes : ExitCodeName(c) = name

\* the exit statuses the runs of the model end with
EngineExitCodes ==
    { ExitCodeOf("OK"), ExitCodeOf("TESTS_FAILED"), ExitCodeOf("INTERNAL_ERROR") }

\* TestOrder.function_source: the literal source of the test function, None
\* when the adapter cannot resolve it (here: the functions of b.py)
function_source(nodeid) ==
    IF nodeid[1] = "a.py" THEN Some(<<"def", nodeid[Len(nodeid)]>>) ELSE None

\* ------------------------------------------------------------------ state
VARIABLES
    pc,          \* "start", "session" (the engine is running), "finished"
    config,      \* self.config
    tests,       \* self.tests: insertion-ordered dict, as the sequence of its values
    last_err,    \* self.last_err
    results,     \* self.results
    raised,      \* a hook raised: the engine stops with an internal error
    exitstatus,  \* the exit status handed to pytest_sessionfinish
    items,       \* the collected items after pytest_collection_modifyitems
    collected,   \* history: the items as the engine collected them
    args,        \* the raw argument list given to _sanitize_args
    clean,       \* the result of _sanitize_args
    nreports,    \* history: number of phase reports delivered
    allpassed,   \* history: per name, the phases reported so far while every
                 \* report for the name passed; None after any other report
    setupfailed, \* history: per name, a failed setup report was delivered
    firstfail,   \* history: per name, the first report with outcome failed
    late,        \* history: per name, the captured output of the last failing or
                 \* call report delivered after the record stopped passing
    order,       \* history: the names in the order of their first report
    drv,         \* run: "idle", "engine" (inside pytest.main), "returned",
                 \* "written", "done", "crashed" (write_text raised)
    run_in,      \* the arguments and the files run was called with
    test_files,  \* run: test_files
    argv,        \* run: the argument list handed to pytest.main
    out_file,    \* the content of results.json, None while it is not written
    out_mode,    \* the mode given to chmod, None before
    fmt_in,      \* the traceback and crash locator given to _make_message
    fmt_out      \* what _make_message did with fmt_in

vars ==
    <<pc, config, tests, last_err, results, raised, exitstatus, items, collected,
      args, clean, nreports, allpassed, setupfailed, firstfail, late, order,
      drv, run_in, test_files, argv, out_file, out_mode, fmt_in, fmt_out>>

aggregation == <<tests, last_err, results>>
history == <<nreports, allpassed, setupfailed, firstfail, late, order>>
driver == <<drv, run_in, test_files, argv, out_file, out_mode>>
formatter == <<fmt_in, fmt_out>>

\* ResultsReporter.__init__, before the engine is started
Init ==
    /\ pc = "start"
    /\ config = None
    /\ tests = <<>>
    /\ last_err = None
    /\ results = Results
    /\ raised = FALSE
    /\ exitstatus = None
    /\ items = <<>>
    /\ collected = None
    /\ args = None
    /\ clean = None
    /\ nreports = 0
    /\ allpassed = [n \in Names |-> Some({})]
    /\ setupfailed = [n \in Names |-> FALSE]
    /\ firstfail = [n \in Names |-> None]
    /\ late = [n \in Names |-> ""]
    /\ order = <<>>
    /\ drv = "idle"
    /\ run_in = None
    /\ test_files = <<>>
    /\ argv = None
    /\ out_file = None
    /\ out_mode = None
    /\ fmt_in = None
    /\ fmt_out = None

\* ------------------------------------------------------- dict operations
HasTest(ts, name) == \E i \in 1..Len(ts) : ts[i].name = name
IndexOf(ts, name) == CHOOSE i \in 1..Len(ts) : ts[i].name = name
Get(ts, name) == ts[IndexOf(ts, name)]

\* a record is created for every report, also for a known name
SetDefaultAlways(ts, name) == Append(ts, Test(name))

\* if name not in self.tests: self.tests[name] = Test(name)
SetDefault(ts, name) == IF HasTest(ts, name) THEN ts ELSE Append(ts, Test(name))

\* ------------------------------------------------------- pytest_configure
pytest_configure ==
    /\ pc = "start"
    /\ pc' = "session"
    /\ config' = Some("rootdir")
    /\ UNCHANGED <<tests, last_err, results, raised, exitstatus, items, collected,
                   args, clean, history, driver, formatter>>

\* ---------------------------------------------- pytest_runtest_logreport
\* only a passed setup is ignored
IgnoresReportSetupOnly(report) == report.outcome = "passed" /\ report.when = "setup"

\* if report.passed and report.when != "call": return
IgnoresReport(report) == report.outcome = "passed" /\ report.when /= "call"

\* the check for an already failed test is missing
FrozenNever(state) == FALSE

\* if not state.is_passing(): return
Frozen(state) == ~TestIsPassing(state)

\* if report.capstdout: state.output = report.capstdout
WithOutput(state, report) ==
    IF report.capstdout /= ""
    THEN [state EXCEPT !.output = Some(report.capstdout)]
    ELSE state

\* building the message of a longrepr raises
Raises(longrepr) ==
    /\ longrepr /= None
    /\ MakeMessageRaises(Val(longrepr).reprtraceback, Val(longrepr).reprcrash)

\* the formatting of a failed report raises
ReportRaises(report) == report.outcome = "failed" /\ Raises(report.longrepr)

\* message = None; if report.longrepr: message = self._make_message(trace, crash)
MessageOf(longrepr) ==
    IF longrepr /= None
    THEN Some(_make_message(Val(longrepr).reprtraceback, Val(longrepr).reprcrash))
    ELSE None

\* the message of each longrepr the formatter returns for, computed once
Message == [longrepr \in { l \in LongReprs : ~Raises(l) } |-> MessageOf(longrepr)]

\* if report.failed: state.error(message) for setup/teardown, state.fail(message) for call
WithVerdict(state, report) ==
    IF report.outcome = "failed"
    THEN IF report.when /= "call"
         THEN TestError(state, Message[report.longrepr])
         ELSE TestFail(state, Message[report.longrepr])
    ELSE state

\* state.test_code = TestOrder.function_source(test_id, source)
WithSource(state, report) == [state EXCEPT !.test_code = function_source(report.nodeid)]

\* the captured output is taken before the check for an already failed test
LogReportOutputFirst(ts, report) ==
    LET name == Name[report.nodeid]
        ts1 == SetDefault(ts, name)
        i == IndexOf(ts1, name)
        state == ts1[i]
    IN IF IgnoresReport(report) THEN [tests |-> ts1, raised |-> FALSE]
       ELSE IF Frozen(state)
            THEN [tests |-> [ts1 EXCEPT ![i] = WithOutput(state, report)],
                  raised |-> FALSE]
       ELSE IF ReportRaises(report)
            THEN [tests |-> [ts1 EXCEPT ![i] = WithOutput(state, report)],
                  raised |-> TRUE]
       ELSE [tests |-> [ts1 EXCEPT ![i] =
                           WithSource(WithVerdict(WithOutput(state, report), report),
                                      report)],
             raised |-> FALSE]

\* the handler on the dict: the dict it leaves and whether it raised
\* a source the adapter cannot resolve aborts the handler
LogReportSourceFatal(ts, report) ==
    LET name == Name[report.nodeid]
        ts1 == SetDefault(ts, name)
        i == IndexOf(ts1, name)
        state == ts1[i]
    IN IF IgnoresReport(report) THEN [tests |-> ts1, raised |-> FALSE]
       ELSE IF Frozen(state) THEN [tests |-> ts1, raised |-> FALSE]
       ELSE IF ReportRaises(report)
            THEN [tests |-> [ts1 EXCEPT ![i] = WithOutput(state, report)],
                  raised |-> TRUE]
       ELSE [tests |-> [ts1 EXCEPT ![i] =
                           WithVerdict(WithOutput(state, report), report)],
             raised |-> function_source(report.nodeid) = None]

LogReport(ts, report) ==
    LET name == Name[report.nodeid]
        ts1 == SetDefault(ts, name)
        i == IndexOf(ts1, name)
        state == ts1[i]
    IN IF IgnoresReport(report) THEN [tests |-> ts1, raised |-> FALSE]
       ELSE IF Frozen(state) THEN [tests |-> ts1, raised |-> FALSE]
       ELSE IF ReportRaises(report)
            THEN [tests |-> [ts1 EXCEPT ![i] = WithOutput(state, report)],
                  raised |-> TRUE]
       ELSE [tests |-> [ts1 EXCEPT ![i] =
                           WithSource(WithVerdict(WithOutput(state, report), report),
                                      report)],
             raised |-> FALSE]

pytest_runtest_logreport(report) ==
    /\ pc = "session"
    /\ ~raised
    /\ nreports < MaxReports
    /\ LET name == Name[report.nodeid]
           r == LogReport(tests, report)
           wasFrozen == HasTest(tests, name) /\ ~TestIsPassing(Get(tests, name))
       IN /\ tests' = r.tests
          /\ raised' = r.raised
          /\ nreports' = nreports + 1
          /\ allpassed' =
                IF report.outcome /= "passed" THEN [allpassed EXCEPT ![name] = None]
                ELSE IF allpassed[name] = None THEN allpassed
                ELSE [allpassed EXCEPT ![name] = Some(Val(@) \cup {report.when})]
          /\ setupfailed' =
                IF report.when = "setup" /\ report.outcome = "failed"
                THEN [setupfailed EXCEPT ![name] = TRUE]
                ELSE setupfailed
          /\ firstfail' =
                IF report.outcome = "failed" /\ firstfail[name] = None
                THEN [firstfail EXCEPT ![name] =
                         Some([when |-> report.when, longrepr |-> report.longrepr])]
                ELSE firstfail
          /\ late' =
                IF /\ wasFrozen
                   /\ report.outcome = "failed" \/ report.when = "call"
                   /\ report.capstdout /= ""
                THEN [late EXCEPT ![name] = report.capstdout]
                ELSE late
          /\ order' = IF name \in Range(order) THEN order ELSE Append(order, name)
    /\ UNCHANGED <<pc, config, last_err, results, exitstatus, items, collected,
                   args, clean, driver, formatter>>

\* --------------------------------------------- pytest_exception_interact
\* the exception representations err.chain[0] the engine can hand over
ExcReprs == { ReprAbs, ReprNoCrash, ReprRel }

\* the message of each of them the formatter returns for, computed once
ExcMessage ==
    [err \in { e \in ExcReprs : ~MakeMessageRaises(e.reprtraceback, e.reprcrash) } |->
        _make_message(err.reprtraceback, err.reprcrash)]

pytest_exception_interact(outcome, err) ==
    /\ pc = "session"
    /\ ~raised
    /\ IF outcome = "failed"
       THEN IF MakeMessageRaises(err.reprtraceback, err.reprcrash)
            THEN raised' = TRUE /\ UNCHANGED last_err
            ELSE /\ last_err' = Some(ExcMessage[err])
                 /\ UNCHANGED raised
       ELSE UNCHANGED <<last_err, raised>>
    /\ UNCHANGED <<pc, config, tests, results, exitstatus, items, collected,
                   args, clean, history, driver, formatter>>

\* --------------------------------------------------- pytest_sessionfinish
RECURSIVE AddAll(_, _)
\* for test in self.tests.values(): self.results.add(test)
AddAll(r, ts) == IF ts = <<>> THEN r ELSE AddAll(ResultsAdd(r, ts[1]), Tail(ts))

UnexpectedMessage(exitcode) ==
    <<"Unexpected ExitCode.", ExitCodeName(exitcode), ": check logs for details">>

\* every exit status but the clean one is taken for a run-level error
VerdictFailAsError(r, exitcode, lasterr) ==
    IF exitcode /= ExitCodeOf("OK")
    THEN ResultsError(r, IF lasterr /= None THEN lasterr
                         ELSE Some(UnexpectedMessage(exitcode)))
    ELSE r

\* no message is synthesized when no fallback is stored
VerdictNoFallback(r, exitcode, lasterr) ==
    IF exitcode = ExitCodeOf("TESTS_FAILED") THEN ResultsFail(r)
    ELSE IF exitcode /= ExitCodeOf("OK") THEN ResultsError(r, lasterr)
    ELSE r

\* the stored fallback is emitted with failed tests too
VerdictFallbackOnFail(r, exitcode, lasterr) ==
    IF exitcode = ExitCodeOf("TESTS_FAILED")
    THEN [ResultsFail(r) EXCEPT !.message = lasterr]
    ELSE IF exitcode /= ExitCodeOf("OK")
         THEN ResultsError(r, IF lasterr /= None THEN lasterr
                              ELSE Some(UnexpectedMessage(exitcode)))
         ELSE r

\* the aggregate status and message for the exit status
Verdict(r, exitcode, lasterr) ==
    IF exitcode = ExitCodeOf("TESTS_FAILED") THEN ResultsFail(r)
    ELSE IF exitcode /= ExitCodeOf("OK")
         THEN ResultsError(r, IF lasterr /= None THEN lasterr
                              ELSE Some(UnexpectedMessage(exitcode)))
         ELSE r

SessionFinish(r, ts, exitcode, lasterr) == AddAll(Verdict(r, exitcode, lasterr), ts)

\* the engine counts the failed reports it delivered (session.testsfailed)
TestsFailed == \E n \in Names : firstfail[n] /= None

\* the exit statuses the engine can end the session with: an internal error
\* when a hook raised, never a clean exit after a failed report
EngineExit(exitcode) ==
    /\ raised => exitcode = ExitCodeOf("INTERNAL_ERROR")
    /\ exitcode = ExitCodeOf("OK") => ~TestsFailed

pytest_sessionfinish(exitcode) ==
    /\ pc = "session"
    /\ EngineExit(exitcode)
    /\ pc' = "finished"
    /\ exitstatus' = Some(exitcode)
    /\ results' = SessionFinish(results, tests, exitcode, last_err)
    /\ UNCHANGED <<config, tests, last_err, raised, items, collected, args, clean,
                   history, driver, formatter>>

\* ------------------------------------------ pytest_collection_modifyitems
\* the items the engine can collect: the functions of NodeIds and one more
ItemIds == NodeIds \cup { <<"a.py", "T", "test_trancation">> }

\* TestOrder.lineno: the line the test function is declared on in its file
\* (a.py and b.py both declare test_hello on line 8)
lineno(nodeid) ==
    IF nodeid[Len(nodeid)] = "test_hello" THEN 8
    ELSE IF nodeid[Len(nodeid)] = "test_abc" THEN 11
    ELSE 14

\* _sort_by_lineno(item)
_sort_by_lineno(item) == lineno(item)

RECURSIVE InsertUnstable(_, _)
\* x goes before the elements of equal key
InsertUnstable(sorted, x) ==
    IF sorted = <<>> THEN <<x>>
    ELSE IF _sort_by_lineno(Head(sorted)) < _sort_by_lineno(x)
         THEN <<Head(sorted)>> \o InsertUnstable(Tail(sorted), x)
         ELSE <<x>> \o sorted

RECURSIVE Insert(_, _)
\* x goes behind every element whose key is not greater than its own
Insert(sorted, x) ==
    IF sorted = <<>> THEN <<x>>
    ELSE IF _sort_by_lineno(Head(sorted)) <= _sort_by_lineno(x)
         THEN <<Head(sorted)>> \o Insert(Tail(sorted), x)
         ELSE <<x>> \o sorted

RECURSIVE Sort(_)
\* items.sort(key=_sort_by_lineno): ascending by key, stable
Sort(its) ==
    IF its = <<>> THEN <<>>
    ELSE Insert(Sort(SubSeq(its, 1, Len(its) - 1)), its[Len(its)])

\* the lists of distinct items the engine can hand to the hook
ItemLists ==
    UNION { { its \in [1..k -> ItemIds] : \A i, j \in 1..k : i /= j => its[i] /= its[j] } :
            k \in 0..MaxItems }

pytest_collection_modifyitems(its) ==
    /\ pc = "session"
    /\ ~raised
    /\ collected = None
    /\ nreports = 0
    /\ collected' = Some(its)
    /\ items' = Sort(its)
    /\ UNCHANGED <<pc, config, tests, last_err, results, raised, exitstatus,
                   args, clean, history, driver, formatter>>

\* -------------------------------------------------------- _sanitize_args
\* an argument is the sequence of its characters (a value is one character)
ArgTb == <<"-", "-", "t", "b">>
ArgTbEq == <<"-", "-", "t", "b", "=">>
ArgTbNo == <<"-", "-", "t", "b", "=", "no">>

ArgTokens ==
    { ArgTb, ArgTbNo,
      <<"-", "-", "t", "b", "=", "long">>,
      <<"-", "-", "t", "b", "s">>,
      <<"-", "v">>,
      <<"long">> }

ArgLists == UNION { [1..k -> ArgTokens] : k \in 0..MaxArgs }

RECURSIVE SanitizeLoopNoSkip(_, _, _)
\* the value that follows "--tb" is not skipped
SanitizeLoopNoSkip(rest, cleaned, skip_next) ==
    IF rest = <<>> THEN cleaned
    ELSE IF Head(rest) = ArgTb THEN SanitizeLoopNoSkip(Tail(rest), cleaned, TRUE)
    ELSE IF StartsWith(Head(rest), ArgTbEq)
         THEN SanitizeLoopNoSkip(Tail(rest), cleaned, FALSE)
    ELSE SanitizeLoopNoSkip(Tail(rest), Append(cleaned, Head(rest)), FALSE)

RECURSIVE SanitizeLoop(_, _, _)
\* the for loop: rest is what is left of args
SanitizeLoop(rest, cleaned, skip_next) ==
    IF rest = <<>> THEN cleaned
    ELSE IF skip_next THEN SanitizeLoop(Tail(rest), cleaned, FALSE)
    ELSE IF Head(rest) = ArgTb THEN SanitizeLoop(Tail(rest), cleaned, TRUE)
    ELSE IF StartsWith(Head(rest), ArgTbEq) THEN SanitizeLoop(Tail(rest), cleaned, FALSE)
    ELSE SanitizeLoop(Tail(rest), Append(cleaned, Head(rest)), FALSE)

_sanitize_args(arglist) == Append(SanitizeLoop(arglist, <<>>, FALSE), ArgTbNo)

\* run: _sanitize_args(args or [])
SanitizeArgs(arglist) ==
    /\ pc = "start"
    /\ args = None
    /\ args' = Some(arglist)
    /\ clean' = Some(_sanitize_args(arglist))
    /\ UNCHANGED <<pc, config, tests, last_err, results, raised, exitstatus, items,
                   collected, history, driver, formatter>>

\* ------------------------------------------------- _make_message, alone
\* the pieces rendered tracebacks are made of
Fragments ==
    { <<"E", " ">>, <<" ", " ">>, <<"x">>, <<"\n">>,
      PathStr(Cwd), <<"/", "sub", "/", "t.py">>, <<"/", "usr">> }

RECURSIVE Flatten(_)
Flatten(ss) == IF ss = <<>> THEN <<>> ELSE ss[1] \o Flatten(Tail(ss))

\* str(trace): every text of one to MaxFrags fragments
Traces ==
    UNION { { Flatten(fs) : fs \in [1..n -> Fragments] } : n \in 1..MaxFrags }

\* a crash in a file outside the working directory, and beside it
CrashOut == [path |-> [abs |-> TRUE, parts |-> <<"usr", "lib", "x.py">>]]
CrashBeside == [path |-> [abs |-> TRUE, parts |-> <<"work", "other", "t.py">>]]

Crashes == { None, Some(CrashAbs), Some(CrashOut), Some(CrashBeside), Some(CrashRel) }

\* one call self._make_message(trace, crash)
MakeMessage(trace, crash) ==
    /\ fmt_in = None
    /\ fmt_in' = Some([trace |-> trace, crash |-> crash])
    /\ fmt_out' = IF MakeMessageRaises(trace, crash)
                  THEN Some([raised |-> TRUE, message |-> None])
                  ELSE Some([raised |-> FALSE,
                             message |-> Some(_make_message(trace, crash))])
    /\ UNCHANGED <<pc, config, tests, last_err, results, raised, exitstatus, items,
                   collected, args, clean, history, driver>>

\* -------------------------------------------------------------------- run
Indir == [abs |-> TRUE, parts |-> <<"in">>]
Outdir == [abs |-> TRUE, parts |-> <<"out">>]

\* dir.joinpath(name), name the text of a relative path
JoinPath(dir, name) == [dir |-> dir, name |-> name]

\* str(path) of a joined path
FileStr(f) == PathStr(f.dir) \o <<"/">> \o f.name

\* the exercise identifiers
Slugs == { <<"two">>, <<"a", "-", "b", "-", "c">> }

FileNames == { <<"x_test.py">>, <<"y_test.py">> }

\* .meta/config.json: None when there is no such file, else the parsed
\* object: without "files", with "files" but no "test" in it, or with the
\* list of test files
ConfigFiles ==
    { None,
      Some([files |-> None]),
      Some([files |-> Some([test |-> None])]) }
    \cup { Some([files |-> Some([test |-> Some(l)])]) :
                l \in UNION { [1..k -> FileNames] : k \in 0..MaxFiles } }

\* the raw argument lists of the runs
RunArgs == { None, Some(<<ArgTb, <<"short">>, <<"-", "v">>>>) }

\* config_data.get('files', {}).get('test', [])
ConfigTests(config_data) ==
    IF config_data.files = None THEN <<>>
    ELSE IF Val(config_data.files).test = None THEN <<>>
    ELSE Val(Val(config_data.files).test)

\* only the first "-" of the slug is replaced
DefaultNameFirst(slug) ==
    LET dashes == { i \in 1..Len(slug) : slug[i] = "-" }
    IN [i \in 1..Len(slug) |->
           IF i \in dashes /\ (\A j \in dashes : i <= j) THEN "_" ELSE slug[i]]
       \o <<"_test.py">>

\* slug.replace("-", "_") + "_test.py"
DefaultName(slug) == Replace(slug, <<"-">>, <<"_">>) \o <<"_test.py">>

\* test_files when pytest.main is called
TestFiles(slug, indir, config_file) ==
    LET listed == IF config_file /= None THEN ConfigTests(Val(config_file)) ELSE <<>>
        joined == [i \in 1..Len(listed) |-> JoinPath(indir, listed[i])]
    IN IF joined = <<>> THEN <<JoinPath(indir, DefaultName(slug))>> ELSE joined

\* reporter.results.as_json(): the message is present for an error only
as_json(r) ==
    [status |-> r.status,
     message |-> IF r.status = "error" THEN r.message ELSE None,
     tests |-> r.tests]

\* the mode handed to chmod: the literal is decimal
ChmodMode == 664

\* run, up to the call of pytest.main
run_begin(slug, config_file, arglist, writable) ==
    /\ drv = "idle"
    /\ pc = "start"
    /\ args = None
    /\ LET files == TestFiles(slug, Indir, config_file)
           raw == IF arglist = None THEN <<>> ELSE Val(arglist)
       IN /\ run_in' = Some([slug |-> slug, config_file |-> config_file,
                             args |-> arglist, writable |-> writable])
          /\ test_files' = files
          /\ args' = Some(raw)
          /\ clean' = Some(_sanitize_args(raw))
          /\ argv' = Some(_sanitize_args(raw)
                              \o [i \in 1..Len(files) |-> FileStr(files[i])])
    /\ drv' = "engine"
    /\ UNCHANGED <<pc, config, tests, last_err, results, raised, exitstatus, items,
                   collected, history, out_file, out_mode, formatter>>

\* pytest.main returns once the session is finished
pytest_main_return ==
    /\ drv = "engine"
    /\ pc = "finished"
    /\ drv' = "returned"
    /\ UNCHANGED <<pc, config, tests, last_err, results, raised, exitstatus, items,
                   collected, args, clean, history, run_in, test_files, argv,
                   out_file, out_mode, formatter>>

\* the results are written while the engine is still running
run_write_text_early ==
    /\ drv = "engine"
    /\ IF Val(run_in).writable
       THEN out_file' = Some(as_json(results)) /\ drv' = "written"
       ELSE drv' = "crashed" /\ UNCHANGED out_file
    /\ UNCHANGED <<pc, config, tests, last_err, results, raised, exitstatus, items,
                   collected, args, clean, history, run_in, test_files, argv,
                   out_mode, formatter>>

\* out_file.write_text(reporter.results.as_json()); raises when the output
\* path cannot be written, and run ends there
run_write_text ==
    /\ drv = "returned"
    /\ IF Val(run_in).writable
       THEN out_file' = Some(as_json(results)) /\ drv' = "written"
       ELSE drv' = "crashed" /\ UNCHANGED out_file
    /\ UNCHANGED <<pc, config, tests, last_err, results, raised, exitstatus, items,
                   collected, args, clean, history, run_in, test_files, argv,
                   out_mode, formatter>>

\* out_file.chmod(664)
run_chmod ==
    /\ drv = "written"
    /\ out_mode' = Some(ChmodMode)
    /\ drv' = "done"
    /\ UNCHANGED <<pc, config, tests, last_err, results, raised, exitstatus, items,
                   collected, args, clean, history, run_in, test_files, argv,
                   out_file, formatter>>

\* the phase reports and exception representations of the runs of the driver
RunReports ==
    { r \in Reports : /\ r.nodeid = <<"a.py", "T", "test_hello">>
                      /\ r.when = "call"
                      /\ r.capstdout = ""
                      /\ r.longrepr \in {None, Some(ReprRel)} }
RunExcReprs == { ReprAbs, ReprRel }

\* ------------------------------------------------------- specifications
Next ==
    \/ pytest_configure
    \/ \E report \in Reports : pytest_runtest_logreport(report)
    \/ \E outcome \in Outcomes, err \in ExcReprs : pytest_exception_interact(outcome, err)
    \/ \E exitcode \in EngineExitCodes : pytest_sessionfinish(exitcode)

Spec == Init /\ [][Next]_vars

\* the collection phase of a session
NextSort ==
    \/ pytest_configure
    \/ \E outcome \in Outcomes, err \in ExcReprs : pytest_exception_interact(outcome, err)
    \/ \E its \in ItemLists : pytest_collection_modifyitems(its)

SpecSort == Init /\ [][NextSort]_vars

\* the argument sanitizer on every bounded argument list
NextArgs == \E arglist \in ArgLists : SanitizeArgs(arglist)

SpecArgs == Init /\ [][NextArgs]_vars

\* the formatter on its own
NextFormat == \E trace \in Traces, crash \in Crashes : MakeMessage(trace, crash)

SpecFormat == Init /\ [][NextFormat]_vars

\* the driver: run calls pytest.main, the engine drives the hooks of the
\* reporter, and run goes on when pytest.main has returned
Engine ==
    \/ pytest_configure
    \/ \E report \in RunReports : pytest_runtest_logreport(report)
    \/ \E outcome \in {"passed", "failed"}, err \in RunExcReprs :
           pytest_exception_interact(outcome, err)
    \/ \E exitcode \in ExitCodes : pytest_sessionfinish(exitcode)

NextRun ==
    \/ \E slug \in Slugs, config_file \in ConfigFiles, arglist \in RunArgs,
          writable \in BOOLEAN : run_begin(slug, config_file, arglist, writable)
    \/ drv = "engine" /\ Engine
    \/ pytest_main_return
    \/ run_write_text
    \/ run_chmod

SpecRun == Init /\ [][NextRun]_vars

\* run is sequential code and every session of the engine ends: each step
\* of the driver that can be taken is taken, and the session is finished
FairRun ==
    /\ WF_vars(\E slug \in Slugs, config_file \in ConfigFiles, arglist \in RunArgs,
                  writable \in BOOLEAN : run_begin(slug, config_file, arglist, writable))
    /\ WF_vars(drv = "engine" /\ pytest_configure)
    /\ WF_vars(drv = "engine" /\ \E exitcode \in ExitCodes : pytest_sessionfinish(exitcode))
    /\ WF_vars(pytest_main_return)
    /\ WF_vars(run_write_text)
    /\ WF_vars(run_chmod)

SpecRunFair == SpecRun /\ FairRun

\* ================================================================ claims
Finished == pc = "finished"
FinalRec(n) == Get(results.tests, n)
Recorded(n) == HasTest(tests, n)
Rec(n) == Get(tests, n)
IsFault(exitcode) == exitcode \notin { ExitCodeOf("OK"), ExitCodeOf("TESTS_FAILED") }

\* C1: when the first failing report for a name is a call-phase failure, the
\* record of that name is failed at run finish and carries the message built
\* from that report, whatever is reported for the name later.
C1_CallFailureWins ==
    \A n \in Names :
        (Finished /\ firstfail[n] /= None /\ Val(firstfail[n]).when = "call")
            => /\ HasTest(results.tests, n)
               /\ FinalRec(n).status = "fail"
               /\ FinalRec(n).message = MessageOf(Val(firstfail[n]).longrepr)

\* C2: when a failed setup report was delivered for a name, the record of that
\* name is errored at run finish.
C2_SetupFailureErrors ==
    \A n \in Names :
        (Finished /\ setupfailed[n])
            => HasTest(results.tests, n) /\ FinalRec(n).status = "error"

\* C3: a name whose reports all passed ends passed with no message, and in
\* every state of a running session the handler, given a passed setup or teardown report,
\* changes no field of any record: it leaves the dict alone or appends one
\* fresh passing record.
C3_PassedFinal ==
    \A n \in Names :
        (Finished /\ HasTest(results.tests, n) /\ allpassed[n] /= None)
            => FinalRec(n).status = "pass" /\ FinalRec(n).message = None

C3_PassedPhaseNoop ==
    (pc = "session" /\ ~raised) =>
        \A report \in Reports :
            (report.outcome = "passed" /\ report.when \in {"setup", "teardown"})
                => LET after == LogReport(tests, report)
                   IN /\ ~after.raised
                      /\ \A i \in 1..Len(tests) : after.tests[i] = tests[i]
                      /\ \/ after.tests = tests
                         \/ after.tests = Append(tests, Test(Name[report.nodeid]))

\* C3: all-passed names end passed without message, and passed setup and
\* teardown reports change no field of any record.
C3_AllPassed == C3_PassedFinal /\ C3_PassedPhaseNoop

C3_Witness ==
    \E n \in Names :
        /\ Finished
        /\ allpassed[n] = Some(Whens)
        /\ HasTest(results.tests, n)
        /\ FinalRec(n).status = "pass"

\* C4: after run finish results.tests holds exactly one entry per name that
\* was reported, in the order the names were first reported, also when the
\* run was cut short.
C4_OneEntryPerName ==
    Finished =>
        /\ [i \in 1..Len(results.tests) |-> results.tests[i].name] = order
        /\ \A i, j \in 1..Len(order) : i /= j => order[i] /= order[j]

C4_Witness ==
    /\ Finished
    /\ Len(results.tests) = 2
    /\ nreports = MaxReports
    /\ \E n \in Names : allpassed[n] = Some({"setup"})

\* C5: at run finish, when some record is failed or errored and the exit
\* status signals no run-level fault, the aggregate status is fail.
C5_TestFailures ==
    ( /\ Finished
      /\ \E i \in 1..Len(results.tests) : results.tests[i].status \in {"fail", "error"}
      /\ ~IsFault(Val(exitstatus)) )
        => results.status = "fail"

C5_Witness ==
    /\ Finished
    /\ ~IsFault(Val(exitstatus))
    /\ \E i, j \in 1..Len(results.tests) :
          /\ results.tests[i].status = "pass"
          /\ results.tests[j].status = "fail"
    /\ results.status = "fail"

\* C6: at run finish, when the exit status signals a run-level fault, the
\* aggregate status is error and the aggregate message is a non-empty text,
\* whatever the statuses of the records.
C6_RunLevelError ==
    (Finished /\ IsFault(Val(exitstatus)))
        => /\ results.status = "error"
           /\ results.message /= None
           /\ Val(results.message) /= <<>>

C6_Witness ==
    /\ Finished
    /\ IsFault(Val(exitstatus))
    /\ ~raised
    /\ \E i \in 1..Len(results.tests) : results.tests[i].status = "fail"
    /\ results.status = "error"

\* C7 as stated: after a failing or call-phase report with captured output
\* arrived for a record that had stopped passing, the output of the record is
\* that captured output.
C7_OutputRefreshed ==
    \A n \in Names :
        late[n] /= "" => Recorded(n) /\ Rec(n).output = Some(late[n])

\* C7 as amended: in every state of a running session the handler, given a failing or
\* call-phase report with captured output for a record that is already failed
\* or errored, changes nothing: the output of the record is kept as well as
\* its status and message.
C7_OutputFrozen ==
    (pc = "session" /\ ~raised) =>
        \A n \in Names :
            (Recorded(n) /\ Rec(n).status \in {"fail", "error"}) =>
                \A report \in Reports :
                    ( /\ Name[report.nodeid] = n
                      /\ report.outcome = "failed" \/ report.when = "call"
                      /\ report.capstdout /= "" )
                        => LET after == LogReport(tests, report)
                           IN ~after.raised /\ after.tests = tests

C7_Witness ==
    \E n \in Names :
        /\ late[n] /= ""
        /\ Recorded(n)
        /\ Rec(n).status \in {"fail", "error"}
        /\ Rec(n).output = None

\* C8: once a record is failed or errored no step (phase report, fatal
\* exception, run finish) changes its status, and a message it carries is
\* never overwritten.
C8_TerminalStep ==
    \A n \in Names :
        (Recorded(n) /\ Rec(n).status \in {"fail", "error"})
            => /\ HasTest(tests', n)
               /\ Get(tests', n).status = Rec(n).status
               /\ Rec(n).message /= None => Get(tests', n).message = Rec(n).message

\* C8: every step keeps the status and the message of a failed or errored
\* record.
C8_TerminalFrozen == [][C8_TerminalStep]_vars

C8_Witness ==
    \E n \in Names :
        /\ Finished
        /\ Recorded(n)
        /\ Rec(n).status = "fail"
        /\ Rec(n).message /= None
        /\ setupfailed[n]
        /\ last_err /= None

\* C9 as stated: the result is the input without every "--tb", without every
\* token that follows a "--tb" and without every token starting with "--tb=",
\* in the input order, followed by "--tb=no".
IsTbFlag(arg) == arg = ArgTb \/ StartsWith(arg, ArgTbEq)

RECURSIVE Keep(_, _)
\* the tokens of arglist at the positions in keep, in order
Keep(arglist, keep) ==
    IF arglist = <<>> THEN <<>>
    ELSE LET k == Len(arglist)
         IN IF k \in keep
            THEN Append(Keep(SubSeq(arglist, 1, k - 1), keep), arglist[k])
            ELSE Keep(SubSeq(arglist, 1, k - 1), keep)

FollowsTb(arglist, i) == i > 1 /\ arglist[i - 1] = ArgTb

C9_EveryTbAndFollower ==
    clean /= None =>
        Val(clean) =
            Append(Keep(Val(args), { i \in 1..Len(Val(args)) :
                                       /\ ~IsTbFlag(Val(args)[i])
                                       /\ ~FollowsTb(Val(args), i) }),
                   ArgTbNo)

RECURSIVE IsValue(_, _)
\* position i is consumed as the value of a "--tb" that is not itself a value
IsValue(arglist, i) ==
    i > 1 /\ arglist[i - 1] = ArgTb /\ ~IsValue(arglist, i - 1)

\* C9 as amended: the result is the input without every "--tb" that is not
\* itself consumed as the value of a preceding "--tb", without the token
\* following each such "--tb", and without every token starting with "--tb=",
\* in the input order, followed by "--tb=no"; the last element is the only
\* traceback flag of the result.
C9_Sanitized ==
    clean /= None =>
        /\ Val(clean) =
              Append(Keep(Val(args), { i \in 1..Len(Val(args)) :
                                         /\ ~IsTbFlag(Val(args)[i])
                                         /\ ~IsValue(Val(args), i) }),
                     ArgTbNo)
        /\ Val(clean)[Len(Val(clean))] = ArgTbNo
        /\ \A i \in 1..(Len(Val(clean)) - 1) : ~IsTbFlag(Val(clean)[i])

C9_Witness ==
    /\ clean /= None
    /\ Val(args) = <<ArgTb, ArgTb, <<"-", "v">>>>
    /\ Val(clean) = << <<"-", "v">>, ArgTbNo>>

\* C10: the collection hook leaves a permutation of the collected items that
\* is ascending by declaration line and keeps the collected order of items on
\* the same line, and it changes no aggregation state.
PosIn(seq, x) == CHOOSE i \in 1..Len(seq) : seq[i] = x

C10_Sorted ==
    collected /= None =>
        LET c == Val(collected)
        IN /\ Len(items) = Len(c)
           /\ Range(items) = Range(c)
           /\ \A i, j \in 1..Len(items) : i < j => lineno(items[i]) <= lineno(items[j])
           /\ \A i, j \in 1..Len(c) :
                  (i < j /\ lineno(c[i]) = lineno(c[j]))
                      => PosIn(items, c[i]) < PosIn(items, c[j])

C10_CollectStep == collected' /= collected => UNCHANGED aggregation

\* C10: the collected items are always sorted stably by declaration line, and
\* the step of the collection hook leaves the aggregation state unchanged.
C10_StableSort == []C10_Sorted /\ [][C10_CollectStep]_vars

C10_Witness ==
    /\ collected /= None
    /\ Len(items) = MaxItems
    /\ items /= Val(collected)
    /\ \E i, j \in 1..Len(items) : i < j /\ lineno(items[i]) = lineno(items[j])
    /\ last_err /= None

\* ---------------------------------------------------------------- C11
\* the number of places where p occurs in s
Occurrences(s, p) ==
    Cardinality({ i \in 1..Len(s) : StartsWith(SubSeq(s, i, Len(s)), p) })

FmtTrace == Val(fmt_in).trace
FmtCrash == Val(fmt_in).crash
FmtReturned == fmt_out /= None /\ ~Val(fmt_out).raised
FmtMessage == Val(Val(fmt_out).message)

PermBits(mode) == { k \in 0..11 : (mode \div (2 ^ k)) % 2 = 1 }

\* C13: the mode given to the results file is rw-rw-r--: owner read and write
\* (bits 8, 7), group read and write (bits 5, 4), others read (bit 2), and no
\* other bit.
C13_ModeRwRwR == out_mode /= None => PermBits(Val(out_mode)) = {8, 7, 5, 4, 2}

\* ---------------------------------------------------------------- C14
\* C14: the test files handed to the engine are never empty: they are the
\* entries of the test-file list of the config file, each joined to the
\* input directory, in their order, when the config file exists and lists
\* any; else the one file <slug with every "-" turned into "_">_test.py of the
\* input directory; and the engine is called with the sanitized arguments
\* followed by these files.
C14_TestFiles ==
    drv /= "idle" =>
        LET call == Val(run_in)
            cfg == call.config_file
            listed == IF /\ cfg /= None
                         /\ Val(cfg).files /= None
                         /\ Val(Val(cfg).files).test /= None
                      THEN Val(Val(Val(cfg).files).test)
                      ELSE <<>>
            default == [i \in 1..Len(call.slug) |->
                           IF call.slug[i] = "-" THEN "_" ELSE call.slug[i]]
                       \o <<"_test.py">>
            raw == IF call.args = None THEN <<>> ELSE Val(call.args)
        IN /\ test_files /= <<>>
           /\ IF listed /= <<>>
              THEN /\ Len(test_files) = Len(listed)
                   /\ \A i \in 1..Len(listed) :
                          test_files[i] = [dir |-> Indir, name |-> listed[i]]
              ELSE test_files = <<[dir |-> Indir, name |-> default]>>
           /\ Val(argv) = _sanitize_args(raw)
                  \o [i \in 1..Len(test_files) |->
                         <<"/", "in", "/">> \o test_files[i].name]

\* a config file that lists no test file, for a slug with two "-": the one
\* default file; and the arguments hold a "--tb" the sanitizer removed
C14_Witness ==
    /\ drv /= "idle"
    /\ Val(run_in).config_file = Some([files |-> Some([test |-> Some(<<>>)])])
    /\ Val(run_in).slug = <<"a", "-", "b", "-", "c">>
    /\ Val(run_in).args /= None
    /\ Val(argv) = <<<<"-", "v">>, ArgTbNo, <<"/", "in", "/", "a", "_", "b", "_", "c", "_test.py">>>>

\* ---------------------------------------------------------------- C15
\* C15: at run finish every exit status is mapped: "tests failed" gives the
\* status fail and a clean exit the status pass, both without a run-level
\* message even when a fallback is stored; every other exit status gives the
\* status error with the stored fallback as message when one is stored, else
\* with a synthesized message that names the exit status.
C15_ExitMapping ==
    Finished =>
        LET exitcode == Val(exitstatus)
        IN /\ exitcode \in ExitCodes
           /\ exitcode = ExitCodeOf("TESTS_FAILED") =>
                  results.status = "fail" /\ results.message = None
           /\ exitcode = ExitCodeOf("OK") =>
                  results.status = "pass" /\ results.message = None
           /\ exitcode \notin {ExitCodeOf("OK"), ExitCodeOf("TESTS_FAILED")} =>
                  /\ results.status = "error"
                  /\ results.message /= None
                  /\ last_err /= None => results.message = last_err
                  /\ last_err = None =>
                         ExitCodeName(exitcode) \in Range(Val(results.message))

\* a fallback is stored and the run ends with failed tests: no message
C15_Witness ==
    /\ Finished
    /\ last_err /= None
    /\ exitstatus = Some(ExitCodeOf("TESTS_FAILED"))
    /\ results.message = None

\* ---------------------------------------------------------------- C16
\* C16: pytest_exception_interact with the outcome "failed" sets last_err to
\* the diagnostic formatted from its exception, whatever was stored before;
\* with any other outcome it leaves last_err as it is; in both cases the test
\* records and the results are unchanged.
C16_FallbackLastWins ==
    [][\A outcome \in Outcomes, err \in ExcReprs :
           pytest_exception_interact(outcome, err) =>
               /\ outcome = "failed" =>
                      last_err' = Some(_make_message(err.reprtraceback, err.reprcrash))
               /\ outcome /= "failed" => last_err' = last_err
               /\ tests' = tests
               /\ results' = results]_vars

\* ---------------------------------------------------------------- C17
\* C17: once a failed report was delivered for a name (the first one finds
\* the record passing), the record of the name is errored when that report
\* was of setup or teardown and failed when it was of the call, with the
\* message built from that report; so a teardown failure after a passed call
\* gives errored, and only a failed call gives failed.
C17_PhaseVerdict ==
    \A n \in Names :
        firstfail[n] /= None =>
            LET first == Val(firstfail[n])
            IN /\ Recorded(n)
               /\ Rec(n).status = IF first.when = "call" THEN "fail" ELSE "error"
               /\ Rec(n).message = MessageOf(first.longrepr)

C18_NeverRaises == fmt_out /= None => ~Val(fmt_out).raised

\* ---------------------------------------------------------------- C20
\* C20: the name of a node id is its segments after the first, joined with
\* "."; node ids that differ in the module only have one name and one
\* record, which is once in tests and whose status and message are those of
\* the first failed report delivered for any of them; node ids that differ in
\* the class or the function have different names.
C20_KeyedByName ==
    /\ \A id \in NodeIds : Name[id] = <<id[2], ".", id[3]>>
    /\ \A id1, id2 \in NodeIds :
          (Tail(id1) = Tail(id2)) <=> (Name[id1] = Name[id2])
    /\ \A i, j \in 1..Len(tests) : i /= j => tests[i].name /= tests[j].name
    /\ \A i \in 1..Len(tests) : tests[i].name \in Names
    /\ \A n \in Names :
          firstfail[n] /= None =>
              /\ Recorded(n)
              /\ Rec(n).status \in {"fail", "error"}
              /\ Rec(n).message = MessageOf(Val(firstfail[n]).longrepr)

====
